---------------------------- MODULE Spec2Model ----------------------------
(***************************************************************************)
(* Model of the detection-and-decision pipeline of the data migration      *)
(* agent: event store, observer, reasoner, decider, action agent, the      *)
(* detection job and the approval routes.                                  *)
(*                                                                         *)
(* Conventions                                                             *)
(*  - confidences are integer percents (0.70 is 70);                       *)
(*  - Python None is the string None, a missing dict key is Absent;        *)
(*  - timestamps are naturals, 0 standing for the empty string;            *)
(*  - an action_id "ACT-<incident>-<i>" is the pair <<incident, i>>.       *)
(***************************************************************************)
EXTENDS Integers, Sequences, FiniteSets, TLC

(***************************************************************************)
(* Bounds of the model.                                                    *)
(***************************************************************************)
NumMerchants == 3
MaxBatch == 3
MaxEvents == 2
MaxDemos == 1
MaxObserved == 4
MaxSpread == 6
MaxGroup == 2
MaxIngested == 3

(***************************************************************************)
(* Program constants.                                                      *)
(***************************************************************************)
confidence_threshold_high == 70
confidence_threshold_medium == 50
merchant_threshold_urgent == 10
merchant_threshold_significant == 3
spike_threshold == 2
batch_size == 500

None == "None"
Absent == "Absent"

Merchants == 1..NumMerchants

(***************************************************************************)
(* Python helpers.                                                         *)
(***************************************************************************)
\* `x in s' for the strings of the model: the keywords an error code holds.
Keywords(code) ==
    CASE code = "WEBHOOK_404"      -> {"WEBHOOK"}
      [] code = "CHECKOUT_502"     -> {"CHECKOUT"}
      [] code = "PAYMENT_DECLINED" -> {"PAYMENT"}
      [] code = "AUTH_401"         -> {"AUTH"}
      [] OTHER                     -> {}

\* Python truthiness of a string-or-None value.
Truthy(v) == v \notin {None, Absent, ""}

\* dict.get(key, default): a missing key gives the default, a None stays None.
Get(v, default) == IF v = Absent THEN default ELSE v

Range(s) == {s[i] : i \in 1..Len(s)}

RECURSIVE SeqSum(_)
SeqSum(s) == IF s = <<>> THEN 0 ELSE Head(s) + SeqSum(Tail(s))

RECURSIVE SelectSeqBy(_, _)
\* keeps the elements of s that belong to the set keep, in order
SelectSeqBy(s, keep) ==
    IF s = <<>> THEN <<>>
    ELSE IF Head(s) \in keep THEN <<Head(s)>> \o SelectSeqBy(Tail(s), keep)
         ELSE SelectSeqBy(Tail(s), keep)

RECURSIVE DistinctInOrder(_)
\* insertion order of a dict's keys: each value once, by first appearance
DistinctInOrder(s) ==
    IF s = <<>> THEN <<>>
    ELSE LET init == DistinctInOrder(SubSeq(s, 1, Len(s) - 1))
             last == s[Len(s)]
         IN  IF last \in Range(init) THEN init ELSE Append(init, last)

SeqMap(F(_), s) == [i \in 1..Len(s) |-> F(s[i])]

(***************************************************************************)
(* ObserverAgent                                                           *)
(***************************************************************************)
NoPatternFields ==
    [pattern_type |-> "", error_code |-> Absent, migration_stage |-> Absent,
     affected_merchants |-> 0, total_occurrences |-> 0, top_errors |-> <<>>,
     event_count |-> 0, severity |-> ""]

CountIn(s, v) == Cardinality({i \in 1..Len(s) : s[i] = v})

ErrorCodeOf(e) == Get(e.error_code, None)
StageOf(e) == Get(e.migration_stage, "unknown")

\* the events carrying a truthy error code (`if not error_code: continue')
ClusterEvents(events) ==
    SelectSeqBy(events, {e \in Range(events) : Truthy(e.error_code)})

ClusterMerchants(events, code) ==
    {events[i].merchant_id : i \in {j \in 1..Len(events) : events[j].error_code = code}}

ClusterOccurrences(events, code) ==
    SeqSum([i \in 1..Len(events) |->
              IF events[i].error_code = code THEN events[i].occurrence_count ELSE 0])

\* a cluster rated high from the significance threshold of the Decider on
ErrorClusterPattern_high_when_significant(events, code) ==
    LET merchant_count == Cardinality(ClusterMerchants(events, code))
    IN  [NoPatternFields EXCEPT
           !.pattern_type = "error_cluster",
           !.error_code = code,
           !.affected_merchants = merchant_count,
           !.total_occurrences = ClusterOccurrences(events, code),
           !.severity = IF merchant_count >= merchant_threshold_significant
                        THEN "high" ELSE "medium"]

ErrorClusterPattern(events, code) ==
    LET merchant_count == Cardinality(ClusterMerchants(events, code))
    IN  [NoPatternFields EXCEPT
           !.pattern_type = "error_cluster",
           !.error_code = code,
           !.affected_merchants = merchant_count,
           !.total_occurrences = ClusterOccurrences(events, code),
           !.severity = IF merchant_count >= 5 THEN "high" ELSE "medium"]

\* a cluster flagged by the number of its events instead of its merchants
_detect_error_clusters_by_events(events, threshold) ==
    LET codes == DistinctInOrder(SeqMap(ErrorCodeOf, ClusterEvents(events)))
        flagged == {c \in Range(codes) : CountIn(SeqMap(ErrorCodeOf, events), c) >= threshold}
    IN  LET F(c) == ErrorClusterPattern(events, c)
        IN  SeqMap(F, SelectSeqBy(codes, flagged))

_detect_error_clusters(events, threshold) ==
    LET codes == DistinctInOrder(SeqMap(ErrorCodeOf, ClusterEvents(events)))
        flagged == {c \in Range(codes) :
                      Cardinality(ClusterMerchants(events, c)) >= threshold}
    IN  LET F(c) == ErrorClusterPattern(events, c)
        IN  SeqMap(F, SelectSeqBy(codes, flagged))

StageMerchants(events, stage) ==
    {events[i].merchant_id : i \in {j \in 1..Len(events) : StageOf(events[j]) = stage}}

StageCodes(events, stage) ==
    LET F(e) == ErrorCodeOf(e)
    IN  SeqMap(F, SelectSeqBy(events, {e \in Range(events) : StageOf(e) = stage}))

RECURSIVE MostCommon(_, _, _)
\* Counter.most_common(n): by count descending, ties in insertion order
MostCommon(codes, keys, n) ==
    IF n = 0 \/ keys = <<>> THEN <<>>
    ELSE LET best == CHOOSE i \in 1..Len(keys) :
                       /\ \A j \in 1..Len(keys) : CountIn(codes, keys[j]) <= CountIn(codes, keys[i])
                       /\ \A j \in 1..(i - 1) : CountIn(codes, keys[j]) < CountIn(codes, keys[i])
             rest == SelectSeqBy(keys, Range(keys) \ {keys[best]})
         IN  <<[code |-> keys[best], count |-> CountIn(codes, keys[best])]>>
               \o MostCommon(codes, rest, n - 1)

MigrationPattern(events, stage) ==
    LET codes == StageCodes(events, stage)
    IN  [NoPatternFields EXCEPT
           !.pattern_type = "migration_correlation",
           !.migration_stage = stage,
           !.affected_merchants = Cardinality(StageMerchants(events, stage)),
           !.top_errors = MostCommon(codes, DistinctInOrder(codes), 3),
           !.severity = IF stage \in {"during_migration", "post_migration"}
                        THEN "high" ELSE "medium"]

_detect_migration_correlation(events) ==
    LET stages == DistinctInOrder(SeqMap(StageOf, events))
        flagged == {s \in Range(stages) :
                      s # "unknown" /\ Cardinality(StageMerchants(events, s)) >= 2}
    IN  LET F(s) == MigrationPattern(events, s)
        IN  SeqMap(F, SelectSeqBy(stages, flagged))

_detect_temporal_spikes(events) ==
    IF \A i \in 1..Len(events) : events[i].timestamp = 0
    THEN <<>>
    ELSE <<[NoPatternFields EXCEPT
              !.pattern_type = "temporal_spike",
              !.event_count = Len(events),
              !.severity = IF Len(events) > 10 THEN "high" ELSE "medium"]>>

\* `"CHECKOUT" in error_code' raises TypeError when error_code is None
SeverityRaises(e) ==
    /\ e.http_status < 500
    /\ e.http_status # 429
    /\ e.error_code = None

SeverityClass(e) ==
    IF e.http_status >= 500 THEN "critical"
    ELSE IF \/ e.http_status = 429
            \/ "CHECKOUT" \in Keywords(Get(e.error_code, ""))
            \/ "PAYMENT" \in Keywords(Get(e.error_code, ""))
         THEN "high"
         ELSE IF e.http_status >= 400 THEN "medium" ELSE "low"

_analyze_severity(events) ==
    [c \in {"critical", "high", "medium", "low"} |->
        Cardinality({i \in 1..Len(events) : SeverityClass(events[i]) = c})]

\* the loop of _analyze_severity stops at the first event that raises
AnalyzeRaises(events) ==
    \E i \in 1..Len(events) :
        /\ SeverityRaises(events[i])

observe(events, threshold) ==
    IF events = <<>>
    THEN [raised |-> FALSE, patterns |-> <<>>, raw_event_count |-> 0,
          severity_breakdown |-> Absent]
    ELSE IF AnalyzeRaises(events)
         THEN [raised |-> TRUE, patterns |-> <<>>, raw_event_count |-> 0,
               severity_breakdown |-> Absent]
         ELSE [raised |-> FALSE,
               patterns |-> _detect_error_clusters(events, threshold)
                              \o _detect_migration_correlation(events)
                              \o _detect_temporal_spikes(events),
               raw_event_count |-> Len(events),
               severity_breakdown |-> _analyze_severity(events)]

(***************************************************************************)
(* ReasoningAgent                                                          *)
(***************************************************************************)
NoHypothesis == [present |-> FALSE, cause |-> None, confidence |-> 0]

Hypothesis(cause, confidence) ==
    [present |-> TRUE, cause |-> cause, confidence |-> confidence]

PatternTypes(patterns) == {patterns[i].pattern_type : i \in 1..Len(patterns)}

ClusterPatterns(patterns) ==
    SelectSeqBy(patterns, {p \in Range(patterns) : p.pattern_type = "error_cluster"})

\* the heuristics trying the error-code keywords before the combined rule
_reason_with_heuristics_cluster_first(observation) ==
    LET patterns == observation.patterns
        has_migration_correlation == "migration_correlation" \in PatternTypes(patterns)
        has_error_cluster == "error_cluster" \in PatternTypes(patterns)
        clusters == ClusterPatterns(patterns)
        primary_error == IF clusters = <<>> THEN "UNKNOWN" ELSE clusters[1].error_code
        primary ==
            IF has_error_cluster
            THEN IF "WEBHOOK" \in Keywords(primary_error)
                 THEN Hypothesis("Webhook endpoint misconfiguration", 70)
                 ELSE IF "PAYMENT" \in Keywords(primary_error)
                         \/ "CHECKOUT" \in Keywords(primary_error)
                 THEN Hypothesis("Checkout/Payment flow breaking change", 72)
                 ELSE IF "AUTH" \in Keywords(primary_error)
                 THEN Hypothesis("API authentication version mismatch", 68)
                 ELSE IF has_migration_correlation
                 THEN Hypothesis("Migration configuration mismatch", 75)
                 ELSE Hypothesis("API compatibility issue", 60)
            ELSE Hypothesis("Requires manual investigation", 40)
    IN  [primary_hypothesis |-> primary, analysis_method |-> "heuristic"]

_reason_with_heuristics(observation) ==
    LET patterns == observation.patterns
        has_migration_correlation == "migration_correlation" \in PatternTypes(patterns)
        has_error_cluster == "error_cluster" \in PatternTypes(patterns)
        clusters == ClusterPatterns(patterns)
        primary_error == IF clusters = <<>> THEN "UNKNOWN" ELSE clusters[1].error_code
        primary ==
            IF has_migration_correlation /\ has_error_cluster
            THEN Hypothesis("Migration configuration mismatch", 75)
            ELSE IF has_error_cluster
            THEN IF "WEBHOOK" \in Keywords(primary_error)
                 THEN Hypothesis("Webhook endpoint misconfiguration", 70)
                 ELSE IF "PAYMENT" \in Keywords(primary_error)
                         \/ "CHECKOUT" \in Keywords(primary_error)
                 THEN Hypothesis("Checkout/Payment flow breaking change", 72)
                 ELSE IF "AUTH" \in Keywords(primary_error)
                 THEN Hypothesis("API authentication version mismatch", 68)
                 ELSE Hypothesis("API compatibility issue", 60)
            ELSE Hypothesis("Requires manual investigation", 40)
    IN  [primary_hypothesis |-> primary, analysis_method |-> "heuristic"]

\* the oracle's answer to a reasoning request: a failure (unavailable,
\* raises, invalid schema) or a schema-valid hypothesis of any confidence
OracleConfidences == {49, 50, 69, 70}

OracleCauses == {"Oracle cause", "Gap in the migration guide documentation"}

\* "documentation" in cause.lower() or "guide" in cause.lower()
MentionsDocs(cause) == cause = "Gap in the migration guide documentation"

OracleReasonings ==
    {[ok |-> FALSE, cause |-> None, confidence |-> 0]}
      \cup {[ok |-> TRUE, cause |-> "Oracle cause", confidence |-> c] :
               c \in OracleConfidences}
      \cup {[ok |-> TRUE, cause |-> k, confidence |-> confidence_threshold_high] :
               k \in OracleCauses}

\* the oracle's failure reaching the caller instead of the heuristics
_reason_with_llm_no_fallback(observation, oracle) ==
    IF oracle.ok
    THEN [primary_hypothesis |-> Hypothesis(oracle.cause, oracle.confidence),
          analysis_method |-> "llm"]
    ELSE [primary_hypothesis |-> NoHypothesis, analysis_method |-> "raised"]

_reason_with_llm(observation, oracle) ==
    IF oracle.ok
    THEN [primary_hypothesis |-> Hypothesis(oracle.cause, oracle.confidence),
          analysis_method |-> "llm"]
    ELSE _reason_with_heuristics(observation)

reason(observation, use_llm, oracle) ==
    IF observation.patterns = <<>>
    THEN [primary_hypothesis |-> NoHypothesis, analysis_method |-> "none"]
    ELSE IF use_llm THEN _reason_with_llm(observation, oracle)
         ELSE _reason_with_heuristics(observation)

(***************************************************************************)
(* DecisionAgent                                                           *)
(***************************************************************************)
Action(type, priority) == [type |-> type, priority |-> priority]

\* str(p) of a pattern holds its error_code and the codes of its top_errors
PatternMentions(p, kw) ==
    \/ kw \in Keywords(p.error_code)
    \/ \E i \in 1..Len(p.top_errors) : kw \in Keywords(p.top_errors[i].code)

HasCheckoutImpact(patterns) ==
    \E i \in 1..Len(patterns) :
        PatternMentions(patterns[i], "CHECKOUT") \/ PatternMentions(patterns[i], "PAYMENT")

TotalMerchants(patterns) ==
    SeqSum([i \in 1..Len(patterns) |->
              IF patterns[i].pattern_type = "error_cluster"
              THEN patterns[i].affected_merchants ELSE 0])

_assess_blast_radius(merchant_count, checkout_impact) ==
    IF checkout_impact /\ merchant_count >= merchant_threshold_urgent
    THEN "critical - widespread revenue impact"
    ELSE IF merchant_count >= merchant_threshold_urgent
    THEN "high - many merchants affected"
    ELSE IF merchant_count >= merchant_threshold_significant
    THEN "medium - multiple merchants"
    ELSE "low - isolated incidents"

IncidentReport == Action("incident_report_draft", Absent)

\* the if/elif chain tried with the high-confidence test first
policy_branch_confidence_first(has_checkout_impact, confidence) ==
    IF confidence >= confidence_threshold_high THEN 2
    ELSE IF has_checkout_impact /\ confidence >= confidence_threshold_medium THEN 1
    ELSE IF confidence >= confidence_threshold_medium THEN 3
    ELSE 4

\* the if/elif chain tried with the medium-confidence test before the high one
policy_branch_medium_first(has_checkout_impact, confidence) ==
    IF has_checkout_impact /\ confidence >= confidence_threshold_medium THEN 1
    ELSE IF confidence >= confidence_threshold_medium THEN 3
    ELSE IF confidence >= confidence_threshold_high THEN 2
    ELSE 4

\* the if/elif chain with the medium threshold one point lower
policy_branch_lenient(has_checkout_impact, confidence) ==
    IF has_checkout_impact /\ confidence >= confidence_threshold_medium THEN 1
    ELSE IF confidence >= confidence_threshold_high THEN 2
    ELSE IF confidence >= confidence_threshold_medium - 1 THEN 3
    ELSE 4

\* the branch of the policy's if/elif chain that is taken: 1 revenue
\* impact, 2 high confidence, 3 medium confidence, 4 low confidence
policy_branch(has_checkout_impact, confidence) ==
    IF has_checkout_impact /\ confidence >= confidence_threshold_medium THEN 1
    ELSE IF confidence >= confidence_threshold_high THEN 2
    ELSE IF confidence >= confidence_threshold_medium THEN 3
    ELSE 4

_decide_with_rules(reasoning, observation) ==
    LET confidence == reasoning.primary_hypothesis.confidence
        cause == reasoning.primary_hypothesis.cause
        patterns == observation.patterns
        total_merchants == TotalMerchants(patterns)
        has_checkout_impact == HasCheckoutImpact(patterns)
        significant == total_merchants >= merchant_threshold_significant
        branch == policy_branch(has_checkout_impact, confidence)
        actions ==
            CASE branch = 1 ->
                   <<Action("engineering_escalation", "P0")>>
                     \o (IF significant
                         THEN <<Action("proactive_merchant_communication", Absent)>>
                         ELSE <<>>)
              [] branch = 2 ->
                   (IF significant
                    THEN <<Action("proactive_merchant_communication", Absent)>>
                    ELSE <<>>)
                     \o <<Action("knowledge_base_update", Absent)>>
                     \o (IF MentionsDocs(cause)
                         THEN <<Action("docs_update_suggestion", Absent)>>
                         ELSE <<>>)
              [] branch = 3 ->
                   <<Action("support_ticket_creation", "P2")>>
                     \o (IF significant THEN <<Action("internal_alert", Absent)>> ELSE <<>>)
              [] OTHER ->
                   <<Action("monitoring_alert", Absent),
                     Action("human_review_request", Absent)>>
    IN  [recommended_actions |-> actions \o <<IncidentReport>>,
         requires_human_approval |-> branch # 4,
         risk_level |-> CASE branch = 1 -> "high"
                          [] branch \in {2, 3} -> "medium"
                          [] OTHER -> "low",
         urgency |-> IF branch = 1 THEN "urgent" ELSE "normal",
         blast_radius |-> _assess_blast_radius(total_merchants, has_checkout_impact),
         source |-> "rules"]

_default_decision ==
    [recommended_actions |-> <<Action("manual_review", Absent)>>,
     requires_human_approval |-> TRUE,
     risk_level |-> "unknown",
     urgency |-> "normal",
     blast_radius |-> "unknown",
     source |-> "default"]

\* the oracle's answer to a decision request: a failure or a schema-valid
\* Decision whose approval flag and risk level are whatever it says
OracleDecisions ==
    {[ok |-> FALSE, requires_human_approval |-> FALSE, risk_level |-> "low",
      urgency |-> "normal", recommended_actions |-> <<>>]}
      \cup {[ok |-> TRUE, requires_human_approval |-> b, risk_level |-> "low",
             urgency |-> "normal",
             recommended_actions |-> <<Action("internal_alert", Absent)>>] :
               b \in BOOLEAN}

ForcedApproval(has_checkout_impact, total_merchants) ==
    has_checkout_impact \/ total_merchants >= merchant_threshold_significant

_validate_and_enhance_decision(decision, reasoning, observation) ==
    LET confidence == reasoning.primary_hypothesis.confidence
        patterns == observation.patterns
        total_merchants == TotalMerchants(patterns)
        has_checkout_impact == HasCheckoutImpact(patterns)
        escalate == has_checkout_impact /\ confidence >= confidence_threshold_medium
    IN  [recommended_actions |-> decision.recommended_actions \o <<IncidentReport>>,
         requires_human_approval |->
             IF ForcedApproval(has_checkout_impact, total_merchants)
             THEN TRUE ELSE decision.requires_human_approval,
         risk_level |-> IF escalate THEN "high" ELSE decision.risk_level,
         urgency |-> IF escalate THEN "urgent" ELSE decision.urgency,
         blast_radius |-> _assess_blast_radius(total_merchants, has_checkout_impact),
         source |-> "llm"]

decide(reasoning, observation, use_llm, oracle) ==
    IF ~reasoning.primary_hypothesis.present
    THEN _default_decision
    ELSE IF use_llm /\ oracle.ok
         THEN _validate_and_enhance_decision(oracle, reasoning, observation)
         ELSE _decide_with_rules(reasoning, observation)

(***************************************************************************)
(* ActionAgent                                                             *)
(***************************************************************************)
Handlers ==
    {"engineering_escalation", "proactive_merchant_communication",
     "support_ticket_creation", "investigate_logs", "knowledge_base_update",
     "docs_update_suggestion", "internal_alert", "slack_alert",
     "email_notification", "human_review_request", "incident_report_draft",
     "manual_review", "create_troubleshooting_entry", "update_runbook"}

\* the adapters that fail during one call of act, by position of the action
ToolFailures == {{}, {1}}

\* one action through its handler: an unknown type goes to
\* _unsupported_action, a handler that raises is caught
_execute_action(action, tool_fails) ==
    [action_type |-> action.type,
     success |-> action.type \in Handlers /\ ~tool_fails,
     error |-> IF action.type \notin Handlers THEN "Unsupported action type"
               ELSE IF tool_fails THEN "str(e)" ELSE None]

\* act without its safety check
act_blocked_never(decision, approved) == FALSE

\* the safety check of act: block without approval
act_blocked(decision, approved) ==
    decision.requires_human_approval /\ ~approved

\* the loop of act leaving at the first action that fails
act_results_abort(decision, fails) ==
    LET all == [i \in 1..Len(decision.recommended_actions) |->
                   _execute_action(decision.recommended_actions[i], i \in fails)]
        bad == {i \in 1..Len(all) : ~all[i].success}
        stop == IF bad = {} THEN Len(all)
                ELSE CHOOSE i \in bad : \A j \in bad : i <= j
    IN  SubSeq(all, 1, stop)

\* the loop of act: one result per action, in order
act_results(decision, fails) ==
    [i \in 1..Len(decision.recommended_actions) |->
        _execute_action(decision.recommended_actions[i], i \in fails)]

AllSucceeded(results) == \A i \in 1..Len(results) : results[i].success

\* the value act returns
act(decision, approved, fails) ==
    IF act_blocked(decision, approved)
    THEN [status |-> "pending_approval", executed_actions |-> <<>>]
    ELSE LET results == act_results(decision, fails)
         IN  [status |-> IF AllSucceeded(results) THEN "completed" ELSE "partial",
              executed_actions |-> results]

\* the entries act appends to self.executed_actions
act_log(decision, approved, fails) ==
    IF act_blocked(decision, approved)
    THEN <<>>
    ELSE LET results == act_results(decision, fails)
         IN  [i \in 1..Len(results) |->
                 [action |-> decision.recommended_actions[i],
                  result |-> results[i],
                  approved |-> approved,
                  required |-> decision.requires_human_approval]]

(***************************************************************************)
(* State                                                                   *)
(***************************************************************************)
VARIABLES
    \* one AgentOrchestrator session (run, run_with_approval, actor.act)
    o_pc,               \* position in the session
    o_in,               \* its inputs: events, use_llm, entry point, auto_approve
    observation,        \* ObserverAgent.observe's result
    reasoning,          \* ReasoningAgent.reason's result
    decision,           \* DecisionAgent.decide's result
    execution,          \* the execution part of the report / act's result
    executed_actions,   \* ActionAgent.executed_actions
    execution_history,  \* number of reports in AgentOrchestrator.execution_history
    \* the database shared by all processes
    events,             \* table events, row id = position
    incidents,          \* table incidents, row id = position
    pending_actions,    \* table pending_actions
    \* per process: API workers, scheduler processes, the demo script
    agent_state,        \* _agent_state["proposed_actions"] of each process
    approval_log,       \* _approval_log of each process
    task,               \* the handler a process is running and its locals
    response,           \* last answer of _do_approve in each process
    \* bookkeeping
    clock,              \* datetime.utcnow() of the approval writes
    dispatched,         \* actions handed to the Actor by _do_approve
    demos               \* run_full_demo runs started

pipeVars == <<o_pc, o_in, observation, reasoning, decision, execution,
              executed_actions, execution_history>>
storeVars == <<events, incidents, pending_actions, agent_state, approval_log,
               task, response, clock, dispatched, demos>>
vars == <<pipeVars, storeVars>>

\* uvicorn workers (run_backend.py --workers), scheduler.py processes and
\* the run_full_demo.py script; they share only the database file
Workers == {"w1", "w2"}
Schedulers == {"s1", "s2"}
DemoScript == "demo"
Procs == Workers \cup Schedulers \cup {DemoScript}

(***************************************************************************)
(* Inputs of an orchestrator session                                       *)
(***************************************************************************)
Event(m, code, stage, ts) ==
    [merchant_id |-> m, error_code |-> code, migration_stage |-> stage,
     timestamp |-> ts, http_status |-> 200, occurrence_count |-> 1]

EventInputs ==
    {Event(m, "CHECKOUT_502", "post_migration", 1) : m \in Merchants}
      \cup {Event(m, "WEBHOOK_404", "unknown", 0) : m \in Merchants}
      \cup {Event(2, "WEBHOOK_404", "post_migration", 1),
            Event(1, None, "unknown", 0),
            Event(1, Absent, Absent, 0)}

Batches == UNION {[1..n -> EventInputs] : n \in 0..MaxBatch}

NoObservation == [raised |-> FALSE, patterns |-> <<>>, raw_event_count |-> 0,
                  severity_breakdown |-> Absent]
NoReasoning == [primary_hypothesis |-> NoHypothesis, analysis_method |-> "none"]
NoDecision == [recommended_actions |-> <<>>, requires_human_approval |-> FALSE,
               risk_level |-> "", urgency |-> "", blast_radius |-> "",
               source |-> ""]
NoExecution == [status |-> "", executed_actions |-> <<>>]

IdleTask == [pc |-> "idle", batch |-> <<>>, action_id |-> <<0, 0>>,
             approved |-> FALSE, source |-> "", index |-> 0]

StoreIdle ==
    /\ events = <<>>
    /\ incidents = <<>>
    /\ pending_actions = <<>>
    /\ agent_state = [p \in Procs |-> <<>>]
    /\ approval_log = [p \in Procs |-> <<>>]
    /\ task = [p \in Procs |-> IdleTask]
    /\ response = [p \in Procs |-> [action_id |-> <<0, 0>>, code |-> 0]]
    /\ clock = 0
    /\ dispatched = {}
    /\ demos = 0

PipeIdle ==
    /\ o_pc = "idle"
    /\ o_in = [events |-> <<>>, use_llm |-> FALSE, entry |-> "run",
               auto_approve |-> FALSE]
    /\ observation = NoObservation
    /\ reasoning = NoReasoning
    /\ decision = NoDecision
    /\ execution = NoExecution
    /\ executed_actions = <<>>
    /\ execution_history = 0

(***************************************************************************)
(* AgentOrchestrator: run(events, auto_approve), run_with_approval(events) *)
(* and a later actor.act(decision, approved) on the same orchestrator      *)
(***************************************************************************)
InitPipeline ==
    /\ StoreIdle
    /\ o_pc = "observe"
    /\ o_in \in [events : Batches, use_llm : BOOLEAN,
                 entry : {"run", "run_with_approval"}, auto_approve : BOOLEAN]
    /\ o_in.entry = "run_with_approval" => ~o_in.auto_approve
    /\ observation = NoObservation
    /\ reasoning = NoReasoning
    /\ decision = NoDecision
    /\ execution = NoExecution
    /\ executed_actions = <<>>
    /\ execution_history = 0

\* STEP 1: observe; an exception of the observer ends the call
Observe ==
    /\ o_pc = "observe"
    /\ observation' = observe(o_in.events, spike_threshold)
    /\ o_pc' = IF observation'.raised THEN "raised" ELSE "reason"
    /\ UNCHANGED <<o_in, reasoning, decision, execution, executed_actions,
                   execution_history, storeVars>>

\* STEP 2: reason
ReasonWith(oracle) ==
    /\ o_pc = "reason"
    /\ o_in.use_llm \/ ~oracle.ok
    /\ reasoning' = reason(observation, o_in.use_llm, oracle)
    /\ o_pc' = "decide"
    /\ UNCHANGED <<o_in, observation, decision, execution, executed_actions,
                   execution_history, storeVars>>

Reason == \E oracle \in OracleReasonings : ReasonWith(oracle)

\* STEP 3: decide
DecideWith(oracle) ==
    /\ o_pc = "decide"
    /\ o_in.use_llm \/ ~oracle.ok
    /\ decision' = decide(reasoning, observation, o_in.use_llm, oracle)
    /\ o_pc' = IF o_in.entry = "run" THEN "act" ELSE "returned"
    /\ UNCHANGED <<o_in, observation, reasoning, execution, executed_actions,
                   execution_history, storeVars>>

Decide == \E oracle \in OracleDecisions : DecideWith(oracle)

\* STEP 4 of run: the approval gate, actor.act, and the report
RunAct ==
    /\ o_pc = "act"
    /\ IF decision.requires_human_approval /\ ~o_in.auto_approve
       THEN /\ execution' = [status |-> "pending_approval", executed_actions |-> <<>>]
            /\ UNCHANGED executed_actions
       ELSE \E fails \in ToolFailures :
              /\ execution' = act(decision, o_in.auto_approve, fails)
              /\ executed_actions' =
                    executed_actions \o act_log(decision, o_in.auto_approve, fails)
    /\ execution_history' = execution_history + 1
    /\ o_pc' = "returned"
    /\ UNCHANGED <<o_in, observation, reasoning, decision, storeVars>>

\* the caller hands the returned decision to actor.act (approve_and_execute
\* passes approved = True, act's default is approved = False)
ActDirect ==
    /\ o_pc = "returned"
    /\ \E approved \in BOOLEAN, fails \in ToolFailures :
          /\ execution' = act(decision, approved, fails)
          /\ executed_actions' = executed_actions \o act_log(decision, approved, fails)
    /\ o_pc' = "acted"
    /\ UNCHANGED <<o_in, observation, reasoning, decision, execution_history,
                   storeVars>>

NextPipeline == Observe \/ Reason \/ Decide \/ RunAct \/ ActDirect

SpecPipeline == InitPipeline /\ [][NextPipeline]_vars

(***************************************************************************)
(* Properties of the orchestrator session                                  *)
(***************************************************************************)
DecisionReturned == o_pc \in {"act", "returned", "acted"}

\* C1: every Decision returned by decide requires human approval when a
\* pattern of the observation mentions CHECKOUT or PAYMENT, whatever the
\* mode and the confidence of the primary hypothesis.
C1_CheckoutForcesApproval ==
    (DecisionReturned /\ HasCheckoutImpact(observation.patterns))
        => decision.requires_human_approval

\* C2: every Decision returned by decide requires human approval when the
\* affected-merchant count over the error clusters is at least 3.
C2_SignificantForcesApproval ==
    (DecisionReturned
       /\ TotalMerchants(observation.patterns) >= merchant_threshold_significant)
        => decision.requires_human_approval

\* C3: for a Decision that requires approval, act and run invoke a handler
\* and append to the actor's execution history only when the call carries
\* approved = True; without it the result is pending_approval; and
\* run_with_approval, the entry point of the detection job, executes nothing.
C3_Gate ==
    /\ \A i \in 1..Len(executed_actions) :
          executed_actions[i].required => executed_actions[i].approved
    /\ (o_pc = "returned" /\ o_in.entry = "run"
          /\ decision.requires_human_approval /\ ~o_in.auto_approve)
         => (execution.status = "pending_approval" /\ executed_actions = <<>>)
    /\ (o_pc = "returned" /\ o_in.entry = "run_with_approval")
         => (execution = NoExecution /\ executed_actions = <<>>)

C3_Blocked ==
    (o_pc' = "acted" /\ decision.requires_human_approval
       /\ executed_actions' = executed_actions)
        => (execution'.status = "pending_approval"
              /\ execution'.executed_actions = <<>>)

C3_ExecutionOnlyThroughApproval == [](C3_Gate) /\ [][C3_Blocked]_vars

C3_Witness ==
    /\ o_pc = "acted"
    /\ decision.requires_human_approval
    /\ execution.status = "pending_approval"
    /\ executed_actions = <<>>

(***************************************************************************)
(* EventStore: table events (id = position, AUTOINCREMENT)                 *)
(***************************************************************************)
\* no signal id: the column is NULL
NoSignalId == 0
SignalIds == {NoSignalId, 1}

\* a raw event in the normalized schema: it carries its event_type
Normalized(event_type, e) == [event_type |-> event_type] @@ e

Loud == Normalized("api_error", Event(1, "CHECKOUT_502", "post_migration", 1))
Quiet == Normalized("webhook_failure", Event(2, "WEBHOOK_404", "unknown", 0))
\* the saves explored: a raw event without signal id, a signal with one
StoreInputs == {[raw |-> Loud, signal_id |-> NoSignalId],
                [raw |-> Quiet, signal_id |-> 1]}

\* the simulation files load_and_ingest_all reads
SimulationData == <<Loud>>

\* `key in raw' and raw.get(key, default) for a raw signal
Has(raw, key) == key \in DOMAIN raw
GetKey(raw, key, default) == IF key \in DOMAIN raw THEN raw[key] ELSE default

\* datetime.utcnow() of _to_iso_timestamp for a signal without timestamp
Now == 1

\* the fields every branch of _normalize_event fills the same way: a
\* missing stage becomes "unknown", a missing error_code becomes None, a
\* missing timestamp becomes the current time
NormalizedFields(raw, event_type, stage, error_code) ==
    [event_type |-> event_type,
     merchant_id |-> GetKey(raw, "merchant_id", 0),
     migration_stage |-> stage,
     error_code |-> IF error_code = Absent THEN None ELSE error_code,
     timestamp |-> GetKey(raw, "timestamp", Now)]

\* the branch of _normalize_event a raw signal takes, by the keys it
\* carries, tried in the order of the code
_normalize_event(raw) ==
    LET stage == Get(GetKey(raw, "migration_stage", "unknown"), "unknown")
        code == GetKey(raw, "error_code", None)
    IN  IF Has(raw, "event_type") /\ Has(raw, "merchant_id") /\ Has(raw, "timestamp")
        THEN NormalizedFields(raw, raw.event_type, stage, code)
        ELSE IF Has(raw, "error_code") /\ Has(raw, "error_message")
        THEN NormalizedFields(raw, "api_error", stage, code)
        ELSE IF Has(raw, "ticket_id") \/ Has(raw, "description")
        THEN NormalizedFields(raw, "support_ticket", stage, code)
        ELSE IF Has(raw, "webhook_id") \/ Has(raw, "failure_reason")
        THEN NormalizedFields(raw, "webhook_failure", stage, code)
        ELSE IF Has(raw, "current_stage") \/ Has(raw, "previous_stage")
        THEN NormalizedFields(raw, "migration_update",
                              GetKey(raw, "current_stage",
                                     GetKey(raw, "previous_stage", "unknown")),
                              None)
        ELSE NormalizedFields(raw, GetKey(raw, "event_type", "unknown"), stage, code)

\* the row save inserts: a plain INSERT with processed = 0
save(rows, raw, signal_id) ==
    LET event == _normalize_event(raw)
    IN  Append(rows, [signal_id |-> signal_id,
                      event_type |-> event.event_type,
                      merchant_id |-> event.merchant_id,
                      migration_stage |-> event.migration_stage,
                      error_code |-> event.error_code,
                      timestamp |-> event.timestamp,
                      processed |-> 0])

\* save_batch: one save per raw event, signal_ids[i] or none
RECURSIVE save_batch(_, _, _)
save_batch(rows, raw_events, signal_ids) ==
    IF raw_events = <<>> THEN rows
    ELSE save_batch(save(rows, Head(raw_events),
                         IF signal_ids # <<>> THEN Head(signal_ids) ELSE NoSignalId),
                    Tail(raw_events),
                    IF signal_ids # <<>> THEN Tail(signal_ids) ELSE <<>>)

mark_processed_by_signal_id(rows, signal_id) ==
    [i \in 1..Len(rows) |->
        IF rows[i].signal_id = signal_id THEN [rows[i] EXCEPT !.processed = 1]
        ELSE rows[i]]

\* ORDER BY timestamp ASC, ties in row order
RECURSIVE OrderByTimestamp(_, _)
OrderByTimestamp(rows, ids) ==
    IF ids = {} THEN <<>>
    ELSE LET first == CHOOSE i \in ids : \A j \in ids :
                         \/ rows[i].timestamp < rows[j].timestamp
                         \/ rows[i].timestamp = rows[j].timestamp /\ i <= j
         IN  <<first>> \o OrderByTimestamp(rows, ids \ {first})

\* the dict get_unprocessed builds from a row
FetchedEvent(rows, i) ==
    [id |-> i,
     merchant_id |-> rows[i].merchant_id,
     error_code |-> rows[i].error_code,
     migration_stage |-> rows[i].migration_stage,
     timestamp |-> rows[i].timestamp,
     http_status |-> 200,
     occurrence_count |-> 1]

\* get_unprocessed without its WHERE processed = 0
get_unprocessed_unfiltered(rows, limit) ==
    LET ids == OrderByTimestamp(rows, 1..Len(rows))
        n == IF Len(ids) < limit THEN Len(ids) ELSE limit
    IN  [k \in 1..n |-> FetchedEvent(rows, ids[k])]

\* SELECT ... WHERE processed = 0 ORDER BY timestamp ASC LIMIT ?
get_unprocessed(rows, limit) ==
    LET ids == OrderByTimestamp(rows, {i \in 1..Len(rows) : rows[i].processed = 0})
        n == IF Len(ids) < limit THEN Len(ids) ELSE limit
    IN  [k \in 1..n |-> FetchedEvent(rows, ids[k])]

\* UPDATE events SET processed = 1 WHERE id IN (...)
mark_processed(rows, event_ids) ==
    [i \in 1..Len(rows) |->
        IF i \in event_ids THEN [rows[i] EXCEPT !.processed = 1] ELSE rows[i]]

\* UPDATE events SET processed = 0
reset_processed_flag(rows) ==
    [i \in 1..Len(rows) |-> [rows[i] EXCEPT !.processed = 0]]

\* event_ids = [e.get("id") for e in events if e.get("id")]
EventIds(batch) == {batch[k].id : k \in 1..Len(batch)}

(***************************************************************************)
(* MemoryManager: tables incidents and pending_actions                     *)
(***************************************************************************)
\* an action id "ACT-<incident_id>-<i>" is the pair <<incident_id, i>>
PendingRow(action_id, action_type) ==
    [action_id |-> action_id, action_type |-> action_type, status |-> "pending",
     reviewed_by |-> None, reviewed_at |-> 0, feedback |-> None]

\* INSERT OR REPLACE ... status 'pending'
create_pending_action(rows, action_id, action_type) ==
    Append(SelectSeqBy(rows, {r \in Range(rows) : r.action_id # action_id}),
           PendingRow(action_id, action_type))

\* SELECT * FROM pending_actions WHERE status = ?
get_pending_actions(rows, status_filter) ==
    SelectSeqBy(rows, {r \in Range(rows) : r.status = status_filter})

HasAction(rows, action_id) == \E i \in 1..Len(rows) : rows[i].action_id = action_id

\* SELECT * FROM pending_actions WHERE action_id = ? (HasAction holds)
get_action_by_id(rows, action_id) ==
    rows[CHOOSE i \in 1..Len(rows) : rows[i].action_id = action_id]

\* UPDATE pending_actions SET status, reviewed_by, feedback, reviewed_at
\* WHERE action_id = ?  -- whatever the current status is
update_action_status(rows, action_id, status, reviewer, feedback, now) ==
    [i \in 1..Len(rows) |->
        IF rows[i].action_id = action_id
        THEN [rows[i] EXCEPT !.status = status, !.reviewed_by = reviewer,
                             !.feedback = feedback, !.reviewed_at = now]
        ELSE rows[i]]

\* record_incident: INSERT INTO incidents, returns lastrowid
record_incident(rows, root_cause, confidence) ==
    Append(rows, [root_cause |-> root_cause, confidence |-> confidence])

\* the loop of run_full_demo over enumerate(actions)
RECURSIVE StoreActions(_, _, _, _)
StoreActions(rows, incident_id, actions, i) ==
    IF i >= Len(actions) THEN rows
    ELSE StoreActions(create_pending_action(rows, <<incident_id, i>>, actions[i + 1].type),
                      incident_id, actions, i + 1)

(***************************************************************************)
(* Ingestion: EventStore.save behind the raw and the signal endpoints      *)
(***************************************************************************)
Save(raw, signal_id) ==
    /\ events' = save(events, raw, signal_id)
    /\ UNCHANGED <<pipeVars, incidents, pending_actions, agent_state,
                   approval_log, task, response, clock, dispatched,
                   demos>>

\* POST /signals/mark-processed/{signal_id}
MarkSignalProcessed(signal_id) ==
    /\ \E i \in 1..Len(events) :
          events[i].signal_id = signal_id /\ events[i].processed = 0
    /\ events' = mark_processed_by_signal_id(events, signal_id)
    /\ UNCHANGED <<pipeVars, incidents, pending_actions, agent_state,
                   approval_log, task, response, clock, dispatched,
                   demos>>

(***************************************************************************)
(* run_detect_incidents in a scheduler process                             *)
(***************************************************************************)
\* the entry of _agent_state["proposed_actions"] built from a row
ProposedForState(row) ==
    [action_id |-> row.action_id, action_type |-> row.action_type,
     status |-> row.status]

\* update_agent_state: proposed_actions is replaced unless None is passed
update_agent_state(state, proposed_actions) ==
    IF proposed_actions = <<>> THEN state ELSE proposed_actions

\* line 43: events = event_store.get_unprocessed(limit=batch_size);
\* an empty batch returns "idle"
DetectFetch(s) ==
    /\ task[s].pc = "idle"
    /\ LET batch == get_unprocessed(events, batch_size)
       IN  task' = [task EXCEPT ![s] =
                       IF batch = <<>> THEN IdleTask
                       ELSE [IdleTask EXCEPT !.pc = "pipeline", !.batch = batch]]
    /\ UNCHANGED <<pipeVars, events, incidents, pending_actions, agent_state,
                   approval_log, response, clock, dispatched, demos>>

\* the cycle going on to mark its batch after the failed store of the incident
DetectPipeline_marks_anyway(s) ==
    /\ task[s].pc = "pipeline"
    /\ LET obs == observe(task[s].batch, spike_threshold)
           pending == get_pending_actions(pending_actions, "pending")
       IN  IF obs.raised
           THEN /\ task' = [task EXCEPT ![s] = IdleTask]
                /\ UNCHANGED agent_state
           ELSE /\ task' = [task EXCEPT ![s].pc = "mark"]
                /\ agent_state' =
                      [agent_state EXCEPT ![s] =
                          update_agent_state(@, SeqMap(ProposedForState, pending))]
    /\ UNCHANGED <<pipeVars, events, incidents, pending_actions, approval_log,
                   response, clock, dispatched, demos>>

\* lines 56-133: run_with_approval, then the incident is stored when there
\* are patterns.  MemoryManager has neither record_full_incident nor
\* add_pending_action: the call raises AttributeError and the cycle ends
\* there, as it does when the observer raises.  Without patterns the
\* pending rows are read and handed to update_agent_state.
DetectPipeline(s) ==
    /\ task[s].pc = "pipeline"
    /\ LET obs == observe(task[s].batch, spike_threshold)
           pending == get_pending_actions(pending_actions, "pending")
       IN  IF obs.raised \/ obs.patterns # <<>>
           THEN /\ task' = [task EXCEPT ![s] = IdleTask]
                /\ UNCHANGED agent_state
           ELSE /\ task' = [task EXCEPT ![s].pc = "mark"]
                /\ agent_state' =
                      [agent_state EXCEPT ![s] =
                          update_agent_state(@, SeqMap(ProposedForState, pending))]
    /\ UNCHANGED <<pipeVars, events, incidents, pending_actions, approval_log,
                   response, clock, dispatched, demos>>

\* line 136: event_store.mark_processed(event_ids)
DetectMark(s) ==
    /\ task[s].pc = "mark"
    /\ events' = mark_processed(events, EventIds(task[s].batch))
    /\ task' = [task EXCEPT ![s] = IdleTask]
    /\ UNCHANGED <<pipeVars, incidents, pending_actions, agent_state,
                   approval_log, response, clock, dispatched, demos>>

(***************************************************************************)
(* run_full_demo.main (without --fresh, heuristic reasoning)               *)
(***************************************************************************)
\* line 138: reset_processed_flag(event_store)
DemoReset ==
    /\ task[DemoScript].pc = "idle"
    /\ demos < MaxDemos
    /\ demos' = demos + 1
    /\ events' = reset_processed_flag(events)
    /\ task' = [task EXCEPT ![DemoScript].pc = "load"]
    /\ UNCHANGED <<pipeVars, incidents, pending_actions, agent_state,
                   approval_log, response, clock, dispatched>>

\* line 141: load_and_ingest_all saves the simulation data
DemoLoad ==
    /\ task[DemoScript].pc = "load"
    /\ events' = save_batch(events, SimulationData, <<>>)
    /\ task' = [task EXCEPT ![DemoScript].pc = "fetch"]
    /\ UNCHANGED <<pipeVars, incidents, pending_actions, agent_state,
                   approval_log, response, clock, dispatched, demos>>

\* line 160: events = event_store.get_unprocessed(limit=500)
DemoFetch ==
    /\ task[DemoScript].pc = "fetch"
    /\ task' = [task EXCEPT ![DemoScript].pc = "store",
                            ![DemoScript].batch = get_unprocessed(events, batch_size)]
    /\ UNCHANGED <<pipeVars, events, incidents, pending_actions, agent_state,
                   approval_log, response, clock, dispatched, demos>>

\* lines 165-225: the pipeline, then record_incident and one
\* create_pending_action per recommended action when there are patterns
DemoStore ==
    /\ task[DemoScript].pc = "store"
    /\ LET obs == observe(task[DemoScript].batch, spike_threshold)
           rsn == reason(obs, FALSE, CHOOSE o \in OracleReasonings : ~o.ok)
           dec == decide(rsn, obs, FALSE, CHOOSE o \in OracleDecisions : ~o.ok)
           incident_id == Len(incidents) + 1
       IN  IF obs.raised
           THEN /\ task' = [task EXCEPT ![DemoScript] = IdleTask]
                /\ UNCHANGED <<incidents, pending_actions>>
           ELSE /\ task' = [task EXCEPT ![DemoScript].pc = "mark"]
                /\ IF obs.patterns # <<>>
                   THEN /\ incidents' =
                             record_incident(incidents,
                                             rsn.primary_hypothesis.cause,
                                             rsn.primary_hypothesis.confidence)
                        /\ pending_actions' =
                             StoreActions(pending_actions, incident_id,
                                          dec.recommended_actions, 0)
                   ELSE UNCHANGED <<incidents, pending_actions>>
    /\ UNCHANGED <<pipeVars, events, agent_state, approval_log, response,
                   clock, dispatched, demos>>

\* line 230: event_store.mark_processed(event_ids)
DemoMark ==
    /\ task[DemoScript].pc = "mark"
    /\ events' = mark_processed(events, EventIds(task[DemoScript].batch))
    /\ task' = [task EXCEPT ![DemoScript] = IdleTask]
    /\ UNCHANGED <<pipeVars, incidents, pending_actions, agent_state,
                   approval_log, response, clock, dispatched, demos>>

(***************************************************************************)
(* POST /actions/approve, /actions/{id}/approve, /actions/{id}/reject      *)
(* in an API worker: _do_approve                                           *)
(***************************************************************************)
\* the requests a worker receives
RequestIds == {<<1, 0>>, <<1, 1>>, <<0, 0>>}
Reviewer(w) == IF w = "w1" THEN "alice" ELSE "bob"
Feedback(approved) == IF approved THEN None ELSE "not now"

InMemoryIndex(state, action_id) ==
    IF \E i \in 1..Len(state) : state[i].action_id = action_id
    THEN CHOOSE i \in 1..Len(state) :
            /\ state[i].action_id = action_id
            /\ \A j \in 1..(i - 1) : state[j].action_id # action_id
    ELSE 0

\* _find_action: the in-memory proposed actions first, then the database
_find_action(state, rows, action_id) ==
    LET i == InMemoryIndex(state, action_id)
    IN  IF i # 0
        THEN [found |-> TRUE, status |-> state[i].status, index |-> i,
              source |-> "memory"]
        ELSE IF HasAction(rows, action_id)
             THEN [found |-> TRUE, status |-> get_action_by_id(rows, action_id).status,
                   index |-> 0, source |-> "db"]
             ELSE [found |-> FALSE, status |-> "", index |-> 0, source |-> ""]

\* _do_approve without its status check
not_pending_never(current_status) == FALSE

\* line 137: str(current_status).lower() != "pending"
not_pending(current_status) == current_status # "pending"

\* lines 123-152: find the action, 404 when there is none, 409 when it is
\* not pending, else the in-memory copy is updated
ApproveRead(w, action_id, approved) ==
    /\ task[w].pc = "idle"
    /\ LET found == _find_action(agent_state[w], pending_actions, action_id)
       IN  IF ~found.found
           THEN /\ response' = [response EXCEPT ![w] =
                                   [action_id |-> action_id, code |-> 404]]
                /\ UNCHANGED <<task, agent_state>>
           ELSE IF not_pending(found.status)
           THEN /\ response' = [response EXCEPT ![w] =
                                   [action_id |-> action_id, code |-> 409]]
                /\ UNCHANGED <<task, agent_state>>
           ELSE /\ task' = [task EXCEPT ![w] =
                               [IdleTask EXCEPT !.pc = "write",
                                                !.action_id = action_id,
                                                !.approved = approved,
                                                !.source = found.source,
                                                !.index = found.index]]
                /\ agent_state' =
                      IF found.source = "memory"
                      THEN [agent_state EXCEPT ![w][found.index].status =
                               IF approved THEN "approved" ELSE "rejected"]
                      ELSE agent_state
                /\ UNCHANGED response
    /\ UNCHANGED <<pipeVars, events, incidents, pending_actions, approval_log,
                   clock, dispatched, demos>>

\* raw = action.get("raw_payload") or action.get("raw_action") or action:
\* a database row carries the stored action, a proposed action of the
\* in-memory state has no "type"
RawAction(rows, action_id, source) ==
    IF source = "db" /\ HasAction(rows, action_id)
    THEN Action(get_action_by_id(rows, action_id).action_type, Absent)
    ELSE Action(Absent, Absent)

\* lines 154-197: update_action_status, the approval log, and for an
\* approval the dispatch through actor.act (execute_if_approved)
ApproveWrite(w) ==
    /\ task[w].pc = "write"
    /\ clock' = clock + 1
    /\ pending_actions' =
          update_action_status(pending_actions, task[w].action_id,
                               IF task[w].approved THEN "approved" ELSE "rejected",
                               Reviewer(w), Feedback(task[w].approved), clock')
    /\ approval_log' =
          [approval_log EXCEPT ![w] =
              Append(@, [action_id |-> task[w].action_id,
                         approved |-> task[w].approved,
                         reviewer |-> Reviewer(w)])]
    /\ IF task[w].approved
       THEN \E fails \in ToolFailures :
              LET dec == [recommended_actions |->
                              <<RawAction(pending_actions, task[w].action_id,
                                          task[w].source)>>,
                          requires_human_approval |-> FALSE]
                  res == act(dec, TRUE, fails)
              IN  dispatched' = dispatched \cup
                      {[action_id |-> task[w].action_id,
                        success |-> res.executed_actions[1].success]}
       ELSE UNCHANGED dispatched
    /\ response' = [response EXCEPT ![w] =
                       [action_id |-> task[w].action_id, code |-> 200]]
    /\ task' = [task EXCEPT ![w] = IdleTask]
    /\ UNCHANGED <<pipeVars, events, incidents, agent_state, demos>>

(***************************************************************************)
(* The deployment: API workers, scheduler processes and the demo script    *)
(* over one database.  The event lifecycle (ingestion, detection cycles,   *)
(* the demo run) and the action lifecycle (the demo run that creates the   *)
(* pending actions, the approval requests) are explored separately: the    *)
(* approval handlers never touch the events table and ingestion never      *)
(* touches pending_actions.                                                *)
(***************************************************************************)
InitStore == PipeIdle /\ StoreIdle

Ingest ==
    \E input \in StoreInputs :
        Len(events) < MaxEvents /\ Save(input.raw, input.signal_id)

MarkSignal == \E signal_id \in SignalIds \ {NoSignalId} : MarkSignalProcessed(signal_id)

Detect ==
    \E s \in Schedulers : DetectFetch(s) \/ DetectPipeline(s) \/ DetectMark(s)

Demo == DemoReset \/ DemoLoad \/ DemoFetch \/ DemoStore \/ DemoMark

Approve ==
    \E w \in Workers :
        \/ \E action_id \in RequestIds, approved \in BOOLEAN :
              ApproveRead(w, action_id, approved)
        \/ ApproveWrite(w)

NextEvents == Ingest \/ MarkSignal \/ Detect \/ Demo

SpecEvents == InitStore /\ [][NextEvents]_vars

NextActions == Demo \/ Approve

SpecActions == InitStore /\ [][NextActions]_vars

(***************************************************************************)
(* Properties of the action lifecycle                                      *)
(***************************************************************************)
RequestLeavesNoTrace(w) ==
    /\ pending_actions' = pending_actions
    /\ approval_log' = approval_log
    /\ agent_state' = agent_state
    /\ dispatched' = dispatched
    /\ task'[w].pc = "idle"

C4_Request(w, action_id, approved) ==
    ApproveRead(w, action_id, approved) =>
        /\ ~HasAction(pending_actions, action_id) =>
              (response'[w].code = 404 /\ RequestLeavesNoTrace(w))
        /\ (HasAction(pending_actions, action_id)
              /\ get_action_by_id(pending_actions, action_id).status # "pending") =>
              (response'[w].code = 409 /\ RequestLeavesNoTrace(w))

\* C4: an approve or reject request that finds the action's status other
\* than pending answers 409 and changes neither the row (status,
\* reviewed_by, reviewed_at, feedback) nor the approval log; a request for
\* an unknown action_id answers 404 and changes nothing either.
C4_ConflictAndNotFound ==
    [][\A w \in Workers, action_id \in RequestIds, approved \in BOOLEAN :
          C4_Request(w, action_id, approved)]_vars

C4_Witness ==
    \E w, v \in Workers :
        /\ response[w].code = 409
        /\ HasAction(pending_actions, response[w].action_id)
        /\ get_action_by_id(pending_actions, response[w].action_id).status # "pending"
        /\ response[v].code = 404
        /\ ~HasAction(pending_actions, response[v].action_id)

AllowedTransitions ==
    {<<"pending", "approved">>, <<"pending", "rejected">>,
     <<"approved", "executed">>, <<"approved", "failed">>}

\* C5: the persisted status of an action only ever moves pending to
\* approved, pending to rejected, approved to executed or approved to
\* failed; rejected, executed and failed are never left.
C5_Lifecycle ==
    [][\A i \in 1..Len(pending_actions), j \in 1..Len(pending_actions') :
          pending_actions[i].action_id = pending_actions'[j].action_id =>
              \/ pending_actions'[j].status = pending_actions[i].status
              \/ <<pending_actions[i].status, pending_actions'[j].status>>
                    \in AllowedTransitions]_vars

Decisions(action_id) ==
    {<<w, k>> \in Workers \X (1..2 * Cardinality(Workers)) :
        k <= Len(approval_log[w]) /\ approval_log[w][k].action_id = action_id}

\* C6: of the approve/reject calls on one action_id, also from different
\* workers, exactly one succeeds: an action has at most one recorded
\* decision, and the row holds that decision's status and reviewer.
C6_SingleWinner ==
    \A action_id \in RequestIds :
        /\ Cardinality(Decisions(action_id)) <= 1
        /\ \A d \in Decisions(action_id) :
              LET entry == approval_log[d[1]][d[2]]
                  row == get_action_by_id(pending_actions, action_id)
              IN  /\ row.reviewed_by = entry.reviewer
                  /\ row.status = IF entry.approved THEN "approved" ELSE "rejected"

\* C10: once an approved action has been dispatched to the Actor its
\* persisted status is executed when the adapter succeeded and failed when
\* it did not; it does not remain approved.
C10_DispatchedLeavesApproved ==
    \A d \in dispatched :
        get_action_by_id(pending_actions, d.action_id).status =
            IF d.success THEN "executed" ELSE "failed"

(***************************************************************************)
(* Properties of the event lifecycle                                       *)
(***************************************************************************)
\* C7: two detection cycles that run at the same time hold disjoint
\* batches: no event id is fetched by both.
C7_DisjointBatches ==
    \A s, t \in Schedulers :
        (s # t /\ task[s].pc # "idle" /\ task[t].pc # "idle")
            => EventIds(task[s].batch) \cap EventIds(task[t].batch) = {}

C8_Step ==
    /\ \A i \in 1..Len(events) :
          events'[i].processed # events[i].processed =>
              \/ events[i].processed = 0 /\ events'[i].processed = 1
              \/ DemoReset
    /\ \A p \in Procs :
          task'[p].batch # task[p].batch =>
              \A k \in 1..Len(task'[p].batch) :
                  events[task'[p].batch[k].id].processed = 0

SavedWith(signal_id) == {i \in 1..Len(events) : events[i].signal_id = signal_id}

\* C9: saving with the same signal id twice leaves exactly one event with
\* that signal id.
C9_IdempotentIngest ==
    \A signal_id \in SignalIds \ {NoSignalId} :
        Cardinality(SavedWith(signal_id)) <= 1

(***************************************************************************)
(* Properties of ActionAgent.act                                           *)
(***************************************************************************)
Executed == execution.status \in {"completed", "partial"}

\* C11: when act executes a Decision every recommended action is attempted
\* once and in order: there is one result per action, an unsupported type
\* or a raising handler gives a success = false result with its error, and
\* the actions after it still have their results and their entries in the
\* actor's log.
C11_SiblingIsolation ==
    Executed =>
        LET actions == decision.recommended_actions
            results == execution.executed_actions
            offset == Len(executed_actions) - Len(actions)
        IN  /\ Len(results) = Len(actions)
            /\ offset >= 0
            /\ \A i \in 1..Len(actions) :
                  /\ results[i].action_type = actions[i].type
                  /\ actions[i].type \notin Handlers => ~results[i].success
                  /\ ~results[i].success => results[i].error # None
                  /\ executed_actions[offset + i].action = actions[i]
                  /\ executed_actions[offset + i].result = results[i]
            /\ (execution.status = "completed") = AllSucceeded(results)

C11_Witness ==
    /\ Executed
    /\ Len(execution.executed_actions) >= 2
    /\ ~execution.executed_actions[1].success
    /\ execution.executed_actions[2].success

(***************************************************************************)
(* Properties of the Decider                                               *)
(***************************************************************************)
RiskRank(risk_level) ==
    CASE risk_level = "high" -> 3
      [] risk_level = "medium" -> 2
      [] risk_level = "low" -> 1
      [] OTHER -> 0

\* C12: a Decision suggested by the oracle is returned only after the policy
\* of the rule table was applied to it: for the same hypothesis set and
\* observation it requires approval wherever the rule table does (any
\* confidence of at least 50) and its risk level is not below the table's.
C12_OracleRevalidated ==
    (DecisionReturned /\ decision.source = "llm") =>
        LET rules == _decide_with_rules(reasoning, observation)
        IN  /\ rules.requires_human_approval => decision.requires_human_approval
            /\ RiskRank(decision.risk_level) >= RiskRank(rules.risk_level)

\* C13: in oracle-assisted mode a failure of the oracle (unavailable, raising
\* or schema-invalid answer) is not surfaced: reason and decide return, and
\* what they return is the result of heuristic (rule-based) mode for the same
\* input.
C13_Step ==
    /\ \A oracle \in OracleReasonings :
          (o_in.use_llm /\ ~oracle.ok /\ ReasonWith(oracle))
              => /\ reasoning' = reason(observation, FALSE, oracle)
                 /\ reasoning'.analysis_method \in {"none", "heuristic"}
    /\ \A oracle \in OracleDecisions :
          (o_in.use_llm /\ ~oracle.ok /\ DecideWith(oracle))
              => /\ decision' = decide(reasoning, observation, FALSE, oracle)
                 /\ decision'.source \in {"default", "rules"}

C13_OracleFailureFallsBack == [][C13_Step]_vars

C13_Witness ==
    /\ o_in.use_llm
    /\ DecisionReturned
    /\ reasoning.analysis_method = "heuristic"
    /\ decision.source = "rules"

HasAction_type(d, type) ==
    \E i \in 1..Len(d.recommended_actions) : d.recommended_actions[i].type = type

\* C14: every Decision returned by decide contains an incident_report_draft
\* action, whichever branch produced it, the Decision for a hypothesis set
\* without primary hypothesis included.
C14_IncidentReportAlways ==
    DecisionReturned => HasAction_type(decision, "incident_report_draft")

RuleBased == DecisionReturned /\ decision.source = "rules"

HasActionWith(d, type, priority) ==
    \E i \in 1..Len(d.recommended_actions) :
        d.recommended_actions[i] = Action(type, priority)

\* C15: the first policy branch has precedence: with checkout/payment impact
\* and a confidence of at least 50 (also of 70 and more) the rule-based
\* Decision is urgent, of high risk, requires approval, holds an
\* engineering_escalation of priority P0, and holds a
\* proactive_merchant_communication exactly when at least 3 merchants are
\* affected.
C15_RevenueBranchFirst ==
    (/\ RuleBased
     /\ HasCheckoutImpact(observation.patterns)
     /\ reasoning.primary_hypothesis.confidence >= confidence_threshold_medium)
        => /\ decision.urgency = "urgent"
           /\ decision.risk_level = "high"
           /\ decision.requires_human_approval
           /\ HasActionWith(decision, "engineering_escalation", "P0")
           /\ HasAction_type(decision, "proactive_merchant_communication")
                 <=> (TotalMerchants(observation.patterns)
                        >= merchant_threshold_significant)

C15_Witness ==
    /\ RuleBased
    /\ HasCheckoutImpact(observation.patterns)
    /\ reasoning.primary_hypothesis.confidence >= confidence_threshold_high
    /\ TotalMerchants(observation.patterns) >= merchant_threshold_significant
    /\ HasAction_type(decision, "proactive_merchant_communication")
    /\ decision.urgency = "urgent"

C15_WitnessFew ==
    /\ RuleBased
    /\ HasCheckoutImpact(observation.patterns)
    /\ reasoning.primary_hypothesis.confidence \in
          confidence_threshold_medium..(confidence_threshold_high - 1)
    /\ TotalMerchants(observation.patterns) < merchant_threshold_significant
    /\ decision.urgency = "urgent"

ActionTypes(d) == {d.recommended_actions[i].type : i \in 1..Len(d.recommended_actions)}

HighBranchTypes ==
    {"proactive_merchant_communication", "knowledge_base_update",
     "docs_update_suggestion", "incident_report_draft"}

MediumBranchTypes ==
    {"support_ticket_creation", "internal_alert", "incident_report_draft"}

C16_WitnessHigh ==
    /\ RuleBased
    /\ ~HasCheckoutImpact(observation.patterns)
    /\ reasoning.primary_hypothesis.confidence = confidence_threshold_high
    /\ TotalMerchants(observation.patterns) < merchant_threshold_significant
    /\ "docs_update_suggestion" \in ActionTypes(decision)

LowBranchTypes == {"monitoring_alert", "human_review_request", "incident_report_draft"}

\* C17: in the lowest policy branch (confidence below 50) the rule-based
\* Decision has risk low, requires no approval, and its actions are exactly
\* the monitoring alert, the human review request and the incident report:
\* no escalation, communication, ticket or internal alert.
C17_LowBranch ==
    (RuleBased /\ reasoning.primary_hypothesis.confidence < confidence_threshold_medium)
        => /\ decision.risk_level = "low"
           /\ ~decision.requires_human_approval
           /\ Len(decision.recommended_actions) = 3
           /\ ActionTypes(decision) = LowBranchTypes

C17_Witness ==
    /\ RuleBased
    /\ reasoning.primary_hypothesis.confidence = confidence_threshold_medium - 1
    /\ HasCheckoutImpact(observation.patterns)
    /\ TotalMerchants(observation.patterns) >= merchant_threshold_significant
    /\ decision.risk_level = "low"

(***************************************************************************)
(* Properties of the Observer                                              *)
(***************************************************************************)
Observed == o_pc # "observe" /\ ~observation.raised

\* C19: observe emits a temporal_spike pattern only for a batch of more than
\* 10 events: a non-empty batch of 10 events or fewer gives no
\* temporal_spike pattern.
C19_SpikeOnlyAboveTen ==
    Observed =>
        \A i \in 1..Len(observation.patterns) :
            observation.patterns[i].pattern_type = "temporal_spike"
                => Len(o_in.events) > 10

(***************************************************************************)
(* ObserverAgent.observe called on a batch and again on the same batch in  *)
(* another order                                                           *)
(***************************************************************************)
ObserverEvents ==
    {Event(1, "WEBHOOK_404", "post_migration", 1),
     Event(2, "WEBHOOK_404", "post_migration", 1),
     Event(2, "CHECKOUT_502", "post_migration", 1),
     Event(1, "PAYMENT_DECLINED", "post_migration", 1),
     Event(2, "AUTH_401", "post_migration", 1)}

\* n events of one code reported by m merchants in turn
Spread(n, m) == [i \in 1..n |-> Event(((i - 1) % m) + 1, "AUTH_401", "unknown", 1)]

ObserverBatches ==
    UNION {[1..n -> ObserverEvents] : n \in 0..MaxObserved}
      \cup {Spread(n, m) : n \in 1..MaxSpread, m \in 1..MaxSpread}

InitObserver ==
    /\ StoreIdle
    /\ o_pc = "observe"
    /\ o_in \in [events : ObserverBatches, use_llm : {FALSE},
                 entry : {"run_with_approval"}, auto_approve : {FALSE}]
    /\ observation = NoObservation
    /\ reasoning = NoReasoning
    /\ decision = NoDecision
    /\ execution = NoExecution
    /\ executed_actions = <<>>
    /\ execution_history = 0

Swap(s, i) == [s EXCEPT ![i] = s[i + 1], ![i + 1] = s[i]]

\* a later call of observe on the same events, two neighbours exchanged
ObservePermuted(i) ==
    /\ o_pc \in {"reason", "raised"}
    /\ i \in 1..(Len(o_in.events) - 1)
    /\ o_in.events[i] # o_in.events[i + 1]
    /\ o_in' = [o_in EXCEPT !.events = Swap(o_in.events, i)]
    /\ observation' = observe(o_in'.events, spike_threshold)
    /\ o_pc' = IF observation'.raised THEN "raised" ELSE "reason"
    /\ UNCHANGED <<reasoning, decision, execution, executed_actions,
                   execution_history, storeVars>>

Reobserve == \E i \in 1..MaxSpread : ObservePermuted(i)

NextObserver == Observe \/ Reobserve

SpecObserver == InitObserver /\ [][NextObserver]_vars

Subjects(code) ==
    {o_in.events[i].merchant_id :
        i \in {j \in 1..Len(o_in.events) : o_in.events[j].error_code = code}}

CodesCarried ==
    {o_in.events[i].error_code : i \in 1..Len(o_in.events)} \ {None, Absent, ""}

ClustersOf(code) ==
    {i \in 1..Len(observation.patterns) :
        /\ observation.patterns[i].pattern_type = "error_cluster"
        /\ observation.patterns[i].error_code = code}

\* C18: observe emits an error_cluster pattern for an error code exactly
\* when the number of distinct merchants among the batch's events carrying
\* the code is at least spike_threshold; the pattern's affected_merchants is
\* that number and its severity is high exactly when the number is at least
\* 5, else medium.  A code shared by fewer merchants gives no cluster,
\* however many events repeat it.
C18_ClusterByDistinctSubjects ==
    Observed =>
        /\ \A code \in CodesCarried :
              LET count == Cardinality(Subjects(code))
              IN  /\ (ClustersOf(code) # {}) <=> (count >= spike_threshold)
                  /\ Cardinality(ClustersOf(code)) <= 1
                  /\ \A i \in ClustersOf(code) :
                        /\ observation.patterns[i].affected_merchants = count
                        /\ observation.patterns[i].severity =
                              IF count >= 5 THEN "high" ELSE "medium"
        /\ \A i \in 1..Len(observation.patterns) :
              observation.patterns[i].pattern_type = "error_cluster"
                  => observation.patterns[i].error_code \in CodesCarried

C18_Witness ==
    /\ Observed
    /\ \E i \in 1..Len(observation.patterns) :
          /\ observation.patterns[i].pattern_type = "error_cluster"
          /\ observation.patterns[i].severity = "high"
          /\ observation.patterns[i].affected_merchants = 5
          /\ Len(o_in.events) > 5

C18_WitnessRepeated ==
    /\ Observed
    /\ Len(o_in.events) >= 3
    /\ Cardinality(CodesCarried) = 1
    /\ \A code \in CodesCarried : Cardinality(Subjects(code)) = 1
    /\ \A i \in 1..Len(observation.patterns) :
          observation.patterns[i].pattern_type # "error_cluster"

\* the fields of a pattern that the comparison looks at, top_errors taken
\* as a set of code/count pairs
Detected(p) ==
    [pattern_type |-> p.pattern_type, error_code |-> p.error_code,
     migration_stage |-> p.migration_stage,
     affected_merchants |-> p.affected_merchants,
     total_occurrences |-> p.total_occurrences,
     top_errors |-> Range(p.top_errors), severity |-> p.severity]

SameDetection(a, b) ==
    /\ a.raised = b.raised
    /\ {Detected(a.patterns[i]) : i \in 1..Len(a.patterns)}
          = {Detected(b.patterns[i]) : i \in 1..Len(b.patterns)}
    /\ a.severity_breakdown = b.severity_breakdown
    /\ a.raw_event_count = b.raw_event_count

\* C20: detection is order-insensitive: observe returns for a batch and for
\* a permutation of it the same set of patterns (type, error code or stage,
\* affected merchants, occurrences, top_errors and severity of each), the
\* same severity breakdown and the same raw event count.
C20_OrderInsensitive ==
    [][Reobserve => SameDetection(observation, observation')]_vars

(***************************************************************************)
(* The heuristic pipeline: run_with_approval(events) of an orchestrator    *)
(* built without the oracle, called on a batch and again on the same batch *)
(* in another order                                                        *)
(***************************************************************************)
HeuristicCodes ==
    {"WEBHOOK_404", "CHECKOUT_502", "PAYMENT_DECLINED", "AUTH_401", "RATE_LIMIT_429"}

\* the events of m merchants that report one code in one stage
Group(code, stage, m) == [i \in 1..m |-> Event(i, code, stage, 1)]

Groups ==
    {Group(code, stage, m) :
        code \in HeuristicCodes, stage \in {"unknown", "post_migration"},
        m \in 0..MaxGroup}

\* 10 events of code WEBHOOK_404 from 4 merchants in stage post_migration
WebhookScenario ==
    [i \in 1..10 |-> Event(((i - 1) % 4) + 1, "WEBHOOK_404", "post_migration", 1)]

\* one event without error code and without stage, with or without timestamp
BareScenarios == {<<Event(1, Absent, Absent, ts)>> : ts \in {0, 1}}

HeuristicBatches ==
    {g \o h : g \in Groups, h \in Groups} \cup {WebhookScenario} \cup BareScenarios

InitHeuristic ==
    /\ StoreIdle
    /\ o_pc = "observe"
    /\ o_in \in [events : HeuristicBatches, use_llm : {FALSE},
                 entry : {"run_with_approval"}, auto_approve : {FALSE}]
    /\ observation = NoObservation
    /\ reasoning = NoReasoning
    /\ decision = NoDecision
    /\ execution = NoExecution
    /\ executed_actions = <<>>
    /\ execution_history = 0

NoOracle == [ok |-> FALSE, cause |-> None, confidence |-> 0]

\* a later run_with_approval on the same events, two neighbours exchanged
RunPermuted(i) ==
    /\ o_pc = "returned"
    /\ Len(o_in.events) <= 2 * MaxGroup
    /\ i \in 1..(Len(o_in.events) - 1)
    /\ o_in.events[i] # o_in.events[i + 1]
    /\ o_in' = [o_in EXCEPT !.events = Swap(o_in.events, i)]
    /\ observation' = observe(o_in'.events, spike_threshold)
    /\ ~observation'.raised
    /\ reasoning' = reason(observation', FALSE, NoOracle)
    /\ decision' = decide(reasoning', observation', FALSE,
                          CHOOSE oracle \in OracleDecisions : ~oracle.ok)
    /\ UNCHANGED <<o_pc, execution, executed_actions, execution_history, storeVars>>

Rerun == \E i \in 1..(2 * MaxGroup) : RunPermuted(i)

NextHeuristic == Observe \/ Reason \/ Decide \/ Rerun

SpecHeuristic == InitHeuristic /\ [][NextHeuristic]_vars

(***************************************************************************)
(* Properties of the heuristic pipeline                                    *)
(***************************************************************************)
Reasoned == o_pc \in {"decide", "returned"}

HasPattern(type) ==
    \E i \in 1..Len(observation.patterns) :
        observation.patterns[i].pattern_type = type

\* the hypothesis the keyword table gives for one error code
KeywordHypothesis(code) ==
    IF "WEBHOOK" \in Keywords(code)
    THEN Hypothesis("Webhook endpoint misconfiguration", 70)
    ELSE IF "PAYMENT" \in Keywords(code) \/ "CHECKOUT" \in Keywords(code)
    THEN Hypothesis("Checkout/Payment flow breaking change", 72)
    ELSE IF "AUTH" \in Keywords(code)
    THEN Hypothesis("API authentication version mismatch", 68)
    ELSE Hypothesis("API compatibility issue", 60)

\* C21: for a non-empty pattern list the heuristic Reasoner's primary
\* hypothesis is fixed by the rule matched: migration_correlation and
\* error_cluster both present give "Migration configuration mismatch" with
\* confidence 75; error_cluster only gives the cause of the keyword table
\* for a cluster's error code (70 webhook, 72 payment/checkout, 68 auth,
\* 60 otherwise); neither gives "Requires manual investigation" with 40.
C21_HeuristicTable ==
    (Reasoned /\ observation.patterns # <<>>) =>
        LET primary == reasoning.primary_hypothesis
        IN  /\ reasoning.analysis_method = "heuristic"
            /\ primary.present
            /\ (HasPattern("migration_correlation") /\ HasPattern("error_cluster"))
                  => primary = Hypothesis("Migration configuration mismatch", 75)
            /\ (~HasPattern("migration_correlation") /\ HasPattern("error_cluster"))
                  => \E i \in 1..Len(observation.patterns) :
                        /\ observation.patterns[i].pattern_type = "error_cluster"
                        /\ primary = KeywordHypothesis(observation.patterns[i].error_code)
            /\ ~HasPattern("error_cluster")
                  => primary = Hypothesis("Requires manual investigation", 40)

C21_Witness ==
    /\ Reasoned
    /\ HasPattern("migration_correlation")
    /\ HasPattern("error_cluster")
    /\ \E i \in 1..Len(observation.patterns) :
          /\ observation.patterns[i].pattern_type = "error_cluster"
          /\ observation.patterns[i].error_code = "AUTH_401"
    /\ reasoning.primary_hypothesis.confidence = 75

C21_WitnessGeneric ==
    /\ Reasoned
    /\ ~HasPattern("migration_correlation")
    /\ reasoning.primary_hypothesis = Hypothesis("API compatibility issue", 60)

PatternsOfType(type) ==
    {i \in 1..Len(observation.patterns) : observation.patterns[i].pattern_type = type}

WebhookScenarioRun == o_pc = "returned" /\ o_in.events = WebhookScenario

\* what the scenario says of the Observer and of the Decider
WebhookScenarioFrame ==
    /\ Cardinality(PatternsOfType("error_cluster")) = 1
    /\ \A i \in PatternsOfType("error_cluster") :
          /\ observation.patterns[i].error_code = "WEBHOOK_404"
          /\ observation.patterns[i].severity = "medium"
          /\ observation.patterns[i].affected_merchants = 4
    /\ Cardinality(PatternsOfType("migration_correlation")) = 1
    /\ decision.risk_level = "medium"
    /\ decision.requires_human_approval
    /\ "proactive_merchant_communication" \in ActionTypes(decision)
    /\ "incident_report_draft" \in ActionTypes(decision)

\* C22: for 10 WEBHOOK_404 events of 4 merchants in stage post_migration the
\* Observer emits one error_cluster (medium, 4 merchants) and one
\* migration_correlation, the heuristic Reasoner gives "Webhook endpoint
\* misconfiguration" with confidence 70, and the Decider gives risk medium,
\* approval required and actions with the proactive communication and the
\* incident report.
C22_WebhookScenario ==
    WebhookScenarioRun =>
        /\ WebhookScenarioFrame
        /\ reasoning.primary_hypothesis
              = Hypothesis("Webhook endpoint misconfiguration", 70)

\* C22 as the code has it: the same scenario, with the primary hypothesis of
\* the combined rule, "Migration configuration mismatch" with confidence 75.
C22_WebhookScenarioAmended ==
    WebhookScenarioRun =>
        /\ WebhookScenarioFrame
        /\ reasoning.primary_hypothesis
              = Hypothesis("Migration configuration mismatch", 75)

C22_Witness ==
    /\ WebhookScenarioRun
    /\ Len(o_in.events) = 10
    /\ reasoning.analysis_method = "heuristic"
    /\ decision.source = "rules"

BareScenarioRun == o_pc = "returned" /\ o_in.events \in BareScenarios

\* C23: for a batch of one event without error code and without stage the
\* Observation has no pattern, the Reasoner returns the hypothesis set
\* without primary hypothesis, and the Decider returns the low-confidence
\* Decision: no approval required, and only the human review request, the
\* monitoring alert and the incident report as actions.
C23_BareScenario ==
    BareScenarioRun =>
        /\ observation.patterns = <<>>
        /\ ~reasoning.primary_hypothesis.present
        /\ ~decision.requires_human_approval
        /\ ActionTypes(decision) = LowBranchTypes

(***************************************************************************)
(* Properties of the detection cycle                                       *)
(***************************************************************************)
\* the step of a detection cycle in which the pipeline found a pattern
DetectsPattern(p) ==
    /\ task[p].pc = IF p = DemoScript THEN "store" ELSE "pipeline"
    /\ task'[p].pc # task[p].pc
    /\ observe(task[p].batch, spike_threshold).patterns # <<>>

\* C24: one incident row is created by each detection cycle that yields at
\* least one pattern and none by a cycle without pattern, and no other
\* operation adds a row: the number of incident rows grows by one exactly in
\* the steps in which a cycle has detected a pattern.
C24_Step ==
    Len(incidents') =
        Len(incidents) + IF \E p \in Schedulers \cup {DemoScript} : DetectsPattern(p)
                         THEN 1 ELSE 0

C24_IncidentPerCycle == [][C24_Step]_vars

(***************************************************************************)
(* Ingestion: POST /signals/ingest (signals validated by the request       *)
(* schema, one save each) and POST /signals/ingest/raw (any list of        *)
(* dicts, save_batch)                                                      *)
(***************************************************************************)
\* model_dump of the four signal classes of the request schema
TicketSignal ==
    [signal_type |-> "support_ticket", ticket_id |-> "T-1", merchant_id |-> 1,
     subject |-> "s", description |-> "d", timestamp |-> 1]

APIErrorSignal ==
    [signal_type |-> "api_error", error_code |-> "CHECKOUT_502",
     error_message |-> "m", merchant_id |-> 1, timestamp |-> 1]

WebhookFailureSignal ==
    [signal_type |-> "webhook_failure", webhook_id |-> "W-1", merchant_id |-> 2,
     event_type |-> "order.created", failure_reason |-> "timeout",
     timestamp |-> 1]

MigrationUpdateSignal ==
    [signal_type |-> "migration_update", merchant_id |-> 2,
     current_stage |-> "post_migration", previous_stage |-> None,
     timestamp |-> 1]

Signals == {TicketSignal, APIErrorSignal, WebhookFailureSignal, MigrationUpdateSignal}

\* a dict that has none of the keys _normalize_event looks for
Unshaped == [note |-> "hello"]

\* what the raw endpoint receives: the four shapes as the simulation files
\* have them, a normalized event, and a dict of no known shape
RawSignals == Signals \cup {Loud, Unshaped}

RawBatches == UNION {[1..n -> RawSignals] : n \in 1..2}

\* ingest_signals: raw = signal.model_dump(); raw["signal_id"] = signal_id;
\* event_store.save(raw, signal_id)
IngestSignals(signal) ==
    /\ Len(events) < MaxIngested
    /\ events' = save(events, signal, 1)
    /\ UNCHANGED <<pipeVars, incidents, pending_actions, agent_state,
                   approval_log, task, response, clock, dispatched, demos>>

\* ingest_raw_events: ids = event_store.save_batch(events)
IngestRaw(batch) ==
    /\ Len(events) + Len(batch) <= MaxIngested
    /\ events' = save_batch(events, batch, <<>>)
    /\ UNCHANGED <<pipeVars, incidents, pending_actions, agent_state,
                   approval_log, task, response, clock, dispatched, demos>>

IngestValidated == \E signal \in Signals : IngestSignals(signal)

IngestUnvalidated == \E batch \in RawBatches : IngestRaw(batch)

NextIngest == IngestValidated \/ IngestUnvalidated

SpecIngest == InitStore /\ [][NextIngest]_vars

(***************************************************************************)
(* Properties of ingestion                                                 *)
(***************************************************************************)
\* the shapes ingestion accepts: ticket, API error, webhook failure, stage
\* update, and an event already in the normalized schema
AcceptedShape(raw) ==
    \/ Has(raw, "ticket_id") \/ Has(raw, "description")
    \/ Has(raw, "error_code") /\ Has(raw, "error_message")
    \/ Has(raw, "webhook_id") \/ Has(raw, "failure_reason")
    \/ Has(raw, "current_stage") \/ Has(raw, "previous_stage")
    \/ Has(raw, "event_type") /\ Has(raw, "merchant_id") /\ Has(raw, "timestamp")

\* C25: a raw signal of none of the accepted shapes is rejected at ingestion
\* and no event is created for it: ingesting a batch stores exactly one
\* event for each signal of an accepted shape and none for the others.
C25_Step ==
    \A batch \in RawBatches :
        IngestRaw(batch) =>
            Len(events') - Len(events)
                = Cardinality({i \in 1..Len(batch) : AcceptedShape(batch[i])})

C25_MalformedRejected == [][C25_Step]_vars

EventTypes == {"support_ticket", "api_error", "webhook_failure", "migration_update"}

\* C26: each signal shape is stored under its own event type (support_ticket,
\* api_error, webhook_failure, migration_update): the event saved for a
\* signal has the event_type of the signal's type, so every stored event's
\* event_type is one of the four values.
C26_Step ==
    \A signal \in Signals :
        IngestSignals(signal) =>
            /\ events'[Len(events')].event_type = signal.signal_type
            /\ events'[Len(events')].event_type \in EventTypes

C26_TypePerShape == [][C26_Step]_vars

(***************************************************************************)
(* The scheduler keeps running detection cycles: scheduler.py runs         *)
(* run_detect_incidents in a loop, so a cycle that can take its next step  *)
(* takes it                                                                *)
(***************************************************************************)
Cycle(s) == DetectFetch(s) \/ DetectPipeline(s) \/ DetectMark(s)

SpecEventsLive ==
    /\ InitStore
    /\ [][NextEvents]_vars
    /\ \A s \in Schedulers : WF_vars(Cycle(s))

Unprocessed(i) == Len(events) >= i /\ events[i].processed = 0

Processed(i) == Len(events) >= i /\ events[i].processed = 1

\* C27: a detection cycle that fetched a non-empty batch runs to its end and
\* marks the events of its batch processed, so while the scheduler keeps
\* running cycles every stored unprocessed event is eventually marked
\* processed.
C27_EventuallyProcessed ==
    \A i \in 1..MaxEvents : Unprocessed(i) ~> Processed(i)

BatchHasPattern(s) == observe(task[s].batch, spike_threshold).patterns # <<>>

\* C28: run_detect_incidents marks the events of a batch processed only
\* after the incident of the cycle has been persisted: a cycle that detected
\* a pattern and did not store its incident, because it failed part-way,
\* neither marks nor goes on to mark its events, and the marking step is
\* only taken by a cycle without pattern or with its incident stored.
C28_Step ==
    \A s \in Schedulers :
        /\ (DetectPipeline(s) /\ BatchHasPattern(s) /\ incidents' = incidents)
              => (task'[s].pc # "mark" /\ events' = events)
        /\ (DetectMark(s) /\ BatchHasPattern(s)) => incidents # <<>>

DetectOnce ==
    DetectFetch("s1") \/ DetectPipeline("s1") \/ DetectMark("s1")

ApproveOnce ==
    \/ \E action_id \in RequestIds, approved \in BOOLEAN :
          ApproveRead("w1", action_id, approved)
    \/ ApproveWrite("w1")

NextApproval == Ingest \/ DetectOnce \/ Demo \/ ApproveOnce

SpecApproval == InitStore /\ [][NextApproval]_vars

StatusOfRow(action_id) ==
    IF HasAction(pending_actions, action_id)
    THEN get_action_by_id(pending_actions, action_id).status
    ELSE None

\* C29: every action held both in a process's in-memory proposed_actions
\* and in the pending_actions table has the same status in both places, so
\* the status the approval guard reads is the persisted one.
C29_InMemoryMatchesTable ==
    \A p \in Procs :
        \A i \in 1..Len(agent_state[p]) :
            StatusOfRow(agent_state[p][i].action_id) \in
                {None, agent_state[p][i].status}

SameDiagnosis ==
    /\ reasoning'.primary_hypothesis = reasoning.primary_hypothesis
    /\ decision'.risk_level = decision.risk_level
    /\ decision'.requires_human_approval = decision.requires_human_approval
    /\ ActionTypes(decision') = ActionTypes(decision)

\* C30: the heuristic pipeline's diagnosis does not depend on the order of
\* the events of the batch: running it again on the batch with two
\* neighbouring events exchanged gives the same primary cause and
\* confidence, the same risk level and approval flag and the same action
\* types.
C30_OrderIndependent == [][Rerun => SameDiagnosis]_vars

=============================================================================
